---- MODULE Spec2Model ----
(***************************************************************************)
(* A model of sqlite_database.py: the TableCon connection object, its     *)
(* field mapper, its INSERT / SELECT statement builders, the sqlite3      *)
(* cursor the statements are executed on, and the result shaper.          *)
(*                                                                         *)
(* A Python str is a sequence of one-character strings.  A Python value   *)
(* is a record [t |-> type tag, v |-> payload]; a dict is a sequence of   *)
(* <<key, value>> pairs with pairwise different keys, in insertion order. *)
(***************************************************************************)
EXTENDS Integers, Sequences, FiniteSets, TLC

VARIABLES
    con,        \* self.con / self.cur: TRUE while a connection is open
    db,         \* self.db: the database file connected to
    table,      \* self.table: the default table (a str, or PyNone)
    field_map,  \* self.field_map: dict of logical name -> column name
    store,      \* the database files: store[file][table] is the row list
    call,       \* the last method call and its arguments
    ret,        \* its outcome: the exception raised (if any) and the value
    stmts,      \* the statements it passed to the cursor, in order
    commits     \* the number of con.commit() calls it made

vars == <<con, db, table, field_map, store, call, ret, stmts, commits>>

-----------------------------------------------------------------------------
(* Python values *)

PyNone == [t |-> "none", v |-> <<>>]
PyStr(s) == [t |-> "str", v |-> s]
PyInt(n) == [t |-> "int", v |-> n]
\* a float with one decimal digit: whole + tenths / 10
PyFloat(whole, tenths) == [t |-> "float", v |-> <<whole, tenths>>]
PyList(xs) == [t |-> "list", v |-> xs]
PyDict(kvs) == [t |-> "dict", v |-> kvs]

-----------------------------------------------------------------------------
(* str primitives, as Python computes them *)

Max(a, b) == IF a >= b THEN a ELSE b
Min(a, b) == IF a <= b THEN a ELSE b

Range(s) == {s[i] : i \in 1..Len(s)}

\* s[n:] and s[:n] for n >= 0
DropFirst(s, n) == SubSeq(s, n + 1, Len(s))
TakeFirst(s, n) == SubSeq(s, 1, Min(n, Len(s)))

\* s[:k] for k = -n <= 0: Python reads s[:-0] as s[:0], the empty string
SliceTo(s, k) == IF k = 0 THEN <<>> ELSE TakeFirst(s, Max(0, Len(s) + k))

StartsWith(s, p) == Len(p) <= Len(s) /\ SubSeq(s, 1, Len(p)) = p

\* s.find(sub) + 1: where the leftmost sub starts in s, or 0
StrFind(s, sub) ==
    LET At(p) == SubSeq(s, p, p + Len(sub) - 1) = sub
        last == Len(s) - Len(sub) + 1
    IN  IF \E p \in 1..last : At(p)
        THEN CHOOSE p \in 1..last : At(p) /\ \A q \in 1..(p - 1) : ~At(q)
        ELSE 0

\* str.replace(old, new), old not empty: leftmost non-overlapping matches
RECURSIVE StrReplace(_, _, _)
StrReplace(s, old, new) ==
    LET Cut(p) == IF p = 0 THEN s
                  ELSE SubSeq(s, 1, p - 1) \o new
                       \o StrReplace(DropFirst(s, p + Len(old) - 1), old, new)
    IN  Cut(StrFind(s, old))

\* str.strip(): without the spaces at both ends
StrStrip(s) ==
    IF \A p \in 1..Len(s) : s[p] = " " THEN <<>>
    ELSE SubSeq(s,
                CHOOSE p \in 1..Len(s) :
                   s[p] # " " /\ \A q \in 1..(p - 1) : s[q] = " ",
                CHOOSE p \in 1..Len(s) :
                   s[p] # " " /\ \A q \in (p + 1)..Len(s) : s[q] = " ")

\* sep.join(parts)
RECURSIVE StrJoin(_, _)
StrJoin(sep, parts) ==
    IF parts = <<>> THEN <<>>
    ELSE IF Len(parts) = 1 THEN parts[1]
    ELSE parts[1] \o sep \o StrJoin(sep, Tail(parts))

DigitChars == <<"0", "1", "2", "3", "4", "5", "6", "7", "8", "9">>

RECURSIVE NatToStr(_)
NatToStr(n) ==
    IF n < 10 THEN <<DigitChars[n + 1]>>
    ELSE NatToStr(n \div 10) \o <<DigitChars[(n % 10) + 1]>>

IntToStr(n) == IF n < 0 THEN <<"-">> \o NatToStr(0 - n) ELSE NatToStr(n)

\* "%s" % value for the scalar values the statements are built from
Format(value) ==
    CASE value.t = "str" -> value.v
      [] value.t = "int" -> IntToStr(value.v)
      [] value.t = "float" -> IntToStr(value.v[1]) \o <<".">> \o NatToStr(value.v[2])
      [] value.t = "none" -> <<"N", "o", "n", "e">>

-----------------------------------------------------------------------------
(* dict primitives *)

Keys(d) == [i \in 1..Len(d) |-> d[i][1]]
HasKey(d, k) == \E i \in 1..Len(d) : d[i][1] = k
Get(d, k) == d[CHOOSE i \in 1..Len(d) : d[i][1] = k][2]

\* d[k] = x: an existing key keeps its position, a new key is appended
DictSet(d, k, x) ==
    IF HasKey(d, k)
    THEN [i \in 1..Len(d) |-> IF d[i][1] = k THEN <<k, x>> ELSE d[i]]
    ELSE Append(d, <<k, x>>)

\* {key(i): val(i) for i in range(n)} over a sequence of <<key, value>>
RECURSIVE DictOf(_)
DictOf(kvs) ==
    IF kvs = <<>> THEN <<>>
    ELSE LET last == kvs[Len(kvs)]
         IN  DictSet(DictOf(SubSeq(kvs, 1, Len(kvs) - 1)), last[1], last[2])

-----------------------------------------------------------------------------
(* TableCon: field mapper, sanitiser, quoting *)

\* a mapper that leaves every name as it is
KeepName(k) == k

\* self.field_map[k] if k in self.field_map else k
MapName(k) == IF HasKey(field_map, k) THEN Get(field_map, k) ELSE k

\* the same for a list element, which is in the field map only if a str
MapElement(e) == IF e.t = "str" THEN PyStr(MapName(e.v)) ELSE e

map_field_names(fields) ==
    CASE fields.t = "dict" ->
           PyDict(DictOf([i \in 1..Len(fields.v) |->
                            <<MapName(fields.v[i][1]), fields.v[i][2]>>]))
      [] fields.t = "list" ->
           PyList([i \in 1..Len(fields.v) |-> MapElement(fields.v[i])])
      [] fields.t = "str" -> PyStr(MapName(fields.v))
      [] OTHER -> PyNone

\* a sanitiser that returns every value as it is
Unsanitised(value) == value

RECURSIVE _sanitise(_)
_sanitise(value) ==
    CASE value.t = "str" -> PyStr(StrReplace(value.v, <<"'">>, <<"'", "'">>))
      [] value.t = "list" ->
           PyList([i \in 1..Len(value.v) |-> _sanitise(value.v[i])])
      [] OTHER -> value

\* "'%s'" % string
_quote(value) == <<"'">> \o Format(value) \o <<"'">>

\* "[%s]" % string
_bracket(name) == <<"[">> \o name \o <<"]">>

-----------------------------------------------------------------------------
(* The database files behind sqlite3.connect: two tables per file *)

renames == <<"r", "e", "n", "a", "m", "e", "s">>
albums == <<"a", "l", "b", "u", "m", "s">>
TableNames == {renames, albums}

INTEGER == <<"I", "N", "T", "E", "G", "E", "R">>
TEXT == <<"T", "E", "X", "T">>

c_id == <<"i", "d">>
c_name == <<"n", "a", "m", "e">>
c_number == <<"n", "u", "m", "b", "e", "r">>
c_album == <<"a", "l", "b", "u", "m">>

Column(name, type) == [name |-> name, type |-> type]

\* the declared columns of a table, in schema order; none for no such table
Columns(t) ==
    CASE t = renames -> <<Column(c_id, INTEGER), Column(c_name, TEXT)>>
      [] t = albums -> <<Column(c_album, TEXT), Column(c_number, INTEGER),
                         Column(c_name, TEXT)>>
      [] OTHER -> <<>>

ColumnIndex(cols, name) ==
    IF \E i \in 1..Len(cols) : cols[i].name = name
    THEN CHOOSE i \in 1..Len(cols) : cols[i].name = name
    ELSE 0

-----------------------------------------------------------------------------
(* The sqlite3 cursor: tokenizer *)

Letters == {"a", "b", "c", "d", "e", "f", "g", "h", "i", "j", "k", "l", "m",
            "n", "o", "p", "q", "r", "s", "t", "u", "v", "w", "x", "y", "z",
            "A", "B", "C", "D", "E", "F", "G", "H", "I", "J", "K", "L", "M",
            "N", "O", "P", "Q", "R", "S", "T", "U", "V", "W", "X", "Y", "Z",
            "_"}
Digits == Range(DigitChars)
Symbols == {"(", ")", ",", "=", "*"}

Token(k, v) == [k |-> k, v |-> v]
Bad == Token("bad", <<>>)

\* the last character of the run of characters of C that starts at s[i]
RunEnd(s, i, C) ==
    IF \A p \in i..Len(s) : s[p] \in C THEN Len(s)
    ELSE (CHOOSE p \in i..Len(s) :
             s[p] \notin C /\ \A q \in i..(p - 1) : s[q] \in C) - 1

WordEnd(s, i) == RunEnd(s, i, Letters \cup Digits)

DigitsEnd(s, i) == RunEnd(s, i, Digits)

\* the last character of the number starting at s[i]: digits [. digits]
NumEnd(s, i) ==
    LET j == DigitsEnd(s, i)
    IN  IF j + 2 <= Len(s) /\ s[j + 1] = "." /\ s[j + 2] \in Digits
        THEN DigitsEnd(s, j + 2)
        ELSE j

\* where the first c at or after s[i] is; 0 if none
Find(s, c, i) ==
    IF \A p \in i..Len(s) : s[p] # c THEN 0
    ELSE CHOOSE p \in i..Len(s) : s[p] = c /\ \A q \in i..(p - 1) : s[q] # c

\* the quote that closes the literal whose text starts at s[i]; 0 if none.
\* Two quotes in a row stand for one quote of the text.
RECURSIVE LiteralEnd(_, _)
LiteralEnd(s, i) ==
    LET Close(q) == IF q = 0 THEN 0
                    ELSE IF q < Len(s) /\ s[q + 1] = "'"
                         THEN LiteralEnd(s, q + 2)
                         ELSE q
    IN  Close(Find(s, "'", i))

Unquote(text) == StrReplace(text, <<"'", "'">>, <<"'">>)

RECURSIVE Tokens(_, _)
Tokens(s, i) ==
    IF i > Len(s) THEN <<>>
    ELSE
      LET c == s[i]
          numAt(n) == \* a number starts at s[n]
              LET j == NumEnd(s, n)
              IN  IF j < Len(s) /\ s[j + 1] \in Letters THEN <<Bad>>
                  ELSE <<Token("num", SubSeq(s, i, j))>> \o Tokens(s, j + 1)
      IN
      CASE c = " " -> Tokens(s, RunEnd(s, i, {" "}) + 1)
        [] c \in Letters ->
             LET j == WordEnd(s, i)
             IN  <<Token("word", SubSeq(s, i, j))>> \o Tokens(s, j + 1)
        [] c \in Digits -> numAt(i)
        [] c = "-" /\ i < Len(s) /\ s[i + 1] \in Digits -> numAt(i + 1)
        [] c = "'" ->
             LET j == LiteralEnd(s, i + 1)
             IN  IF j = 0 THEN <<Bad>>
                 ELSE <<Token("str", Unquote(SubSeq(s, i + 1, j - 1)))>>
                      \o Tokens(s, j + 1)
        [] c = "[" ->
             LET j == Find(s, "]", i + 1)
             IN  IF j = 0 THEN <<Bad>>
                 ELSE <<Token("id", SubSeq(s, i + 1, j - 1))>>
                      \o Tokens(s, j + 1)
        [] c \in Symbols -> <<Token("sym", <<c>>)>> \o Tokens(s, i + 1)
        [] OTHER -> <<Bad>>

Word(w) == Token("word", w)
Sym(c) == Token("sym", <<c>>)

kwSELECT == <<"S", "E", "L", "E", "C", "T">>
kwDISTINCT == <<"D", "I", "S", "T", "I", "N", "C", "T">>
kwFROM == <<"F", "R", "O", "M">>
kwWHERE == <<"W", "H", "E", "R", "E">>
kwAND == <<"A", "N", "D">>
kwOR == <<"O", "R">>
kwINSERT == <<"I", "N", "S", "E", "R", "T">>
kwINTO == <<"I", "N", "T", "O">>
kwVALUES == <<"V", "A", "L", "U", "E", "S">>
kwPRAGMA == <<"P", "R", "A", "G", "M", "A">>
kw_table_info == <<"t", "a", "b", "l", "e", "_", "i", "n", "f", "o">>
-----------------------------------------------------------------------------
(* The sqlite3 cursor: storage classes and column affinity *)

DigitValue(c) == CHOOSE d \in 0..9 : DigitChars[d + 1] = c

RECURSIVE StrToNat(_)
StrToNat(s) ==
    IF Len(s) = 1 THEN DigitValue(s[1])
    ELSE 10 * StrToNat(SubSeq(s, 1, Len(s) - 1)) + DigitValue(s[Len(s)])

IsNatText(s) == s # <<>> /\ Range(s) \subseteq Digits
IsIntText(s) == IsNatText(s) \/ (s # <<>> /\ s[1] = "-" /\ IsNatText(Tail(s)))
\* a real written with one decimal digit
IsRealText(s) ==
    /\ Len(s) >= 3
    /\ s[Len(s) - 1] = "."
    /\ s[Len(s)] \in Digits
    /\ IsNatText(SubSeq(s, 1, Len(s) - 2))

StrToInt(s) == IF s[1] = "-" THEN 0 - StrToNat(Tail(s)) ELSE StrToNat(s)

\* the value a literal has once the affinity of a column is applied to it:
\* INTEGER turns text that reads as a number into that number (and a whole
\* real into an integer), TEXT turns a number into its text
Affinity(type, lit) ==
    IF type = INTEGER
    THEN IF IsIntText(lit.v) THEN PyInt(StrToInt(lit.v))
         ELSE IF IsRealText(lit.v)
              THEN LET whole == StrToNat(SubSeq(lit.v, 1, Len(lit.v) - 2))
                       tenths == DigitValue(lit.v[Len(lit.v)])
                   IN  IF tenths = 0 THEN PyInt(whole)
                       ELSE PyFloat(whole, tenths)
              ELSE PyStr(lit.v)
    ELSE PyStr(lit.v)

-----------------------------------------------------------------------------
(* The sqlite3 cursor: parser and evaluator of the statements *)

Failed == [ok |-> FALSE, items |-> <<>>, next |-> 0]

\* a comma-separated list of tokens of the given kinds (and, with star, of
\* the symbol * ), from toks[p] on
RECURSIVE ItemList(_, _, _, _)
ItemList(toks, p, kinds, star) ==
    IF p > Len(toks) \/ ~(toks[p].k \in kinds \/ (star /\ toks[p] = Sym("*")))
    THEN Failed
    ELSE IF p < Len(toks) /\ toks[p + 1] = Sym(",")
         THEN LET rest == ItemList(toks, p + 2, kinds, star)
              IN  [ok |-> rest.ok, items |-> <<toks[p]>> \o rest.items,
                   next |-> rest.next]
         ELSE [ok |-> TRUE, items |-> <<toks[p]>>, next |-> p + 1]

\* [col] = literal, joined by AND / OR, up to the end of the statement
RECURSIVE PredicateList(_, _)
PredicateList(toks, p) ==
    IF p + 2 > Len(toks) \/ toks[p].k # "id" \/ toks[p + 1] # Sym("=")
       \/ toks[p + 2].k \notin {"str", "num"}
    THEN Failed
    ELSE LET pred(join) == [col |-> toks[p].v, lit |-> toks[p + 2],
                            join |-> join]
         IN  IF p + 2 = Len(toks)
             THEN [ok |-> TRUE, items |-> <<pred(<<>>)>>, next |-> p + 3]
             ELSE IF toks[p + 3] \in {Word(kwAND), Word(kwOR)}
                  THEN LET rest == PredicateList(toks, p + 4)
                       IN  [ok |-> rest.ok,
                            items |-> <<pred(toks[p + 3].v)>> \o rest.items,
                            next |-> rest.next]
                  ELSE Failed

PredicateHolds(pred, cols, row) ==
    LET i == ColumnIndex(cols, pred.col)
    IN  row[i].t # "none" /\ row[i] = Affinity(cols[i].type, pred.lit)

\* the WHERE expression on a row: AND binds tighter than OR
RECURSIVE WhereHolds(_, _, _, _, _)
WhereHolds(preds, i, cols, row, conj) ==
    LET cur == conj /\ PredicateHolds(preds[i], cols, row)
    IN  IF i = Len(preds) THEN cur
        ELSE IF preds[i].join = kwOR
             THEN cur \/ WhereHolds(preds, i + 1, cols, row, TRUE)
             ELSE WhereHolds(preds, i + 1, cols, row, cur)

\* the first occurrence of every row, in order
RECURSIVE Distinct(_)
Distinct(rows) ==
    IF rows = <<>> THEN <<>>
    ELSE LET init == Distinct(SubSeq(rows, 1, Len(rows) - 1))
         IN  IF rows[Len(rows)] \in Range(init) THEN init
             ELSE Append(init, rows[Len(rows)])

RECURSIVE Flatten(_)
Flatten(seqs) == IF seqs = <<>> THEN <<>> ELSE Head(seqs) \o Flatten(Tail(seqs))

Error == [ok |-> FALSE, rows |-> <<>>]
Rows(rows) == [ok |-> TRUE, rows |-> rows]

\* the rows of table t that satisfy the predicates, cut to the result columns
SelectRows(t, rows, distinct, items, preds) ==
    LET cols == Columns(t)
        index == Flatten([i \in 1..Len(items) |->
                    IF items[i].k = "id" THEN <<ColumnIndex(cols, items[i].v)>>
                    ELSE [j \in 1..Len(cols) |-> j]])
        keep(row) == preds = <<>> \/ WhereHolds(preds, 1, cols, row, TRUE)
        Cut(kept) == [r \in 1..Len(kept) |->
                        [i \in 1..Len(index) |-> kept[r][index[i]]]]
    IN  IF \/ \E i \in 1..Len(items) :
                items[i].k = "id" /\ ColumnIndex(cols, items[i].v) = 0
           \/ \E i \in 1..Len(preds) : ColumnIndex(cols, preds[i].col) = 0
        THEN Error          \* no such column
        ELSE IF distinct THEN Rows(Distinct(Cut(SelectSeq(rows, keep))))
             ELSE Rows(Cut(SelectSeq(rows, keep)))

\* what follows the result columns: FROM table, then nothing, an alias for
\* the table, or WHERE and the predicates
SelectFrom(toks, tables, distinct, list) ==
    IF ~list.ok \/ list.next + 1 > Len(toks) \/ toks[list.next] # Word(kwFROM)
       \/ toks[list.next + 1].k # "word"
       \/ toks[list.next + 1].v \notin DOMAIN tables
    THEN Error
    ELSE IF list.next + 2 <= Len(toks) /\ toks[list.next + 2] = Word(kwWHERE)
         THEN LET Where(where) ==
                    IF ~where.ok THEN Error
                    ELSE SelectRows(toks[list.next + 1].v,
                                    tables[toks[list.next + 1].v], distinct,
                                    list.items, where.items)
              IN  Where(PredicateList(toks, list.next + 3))
         ELSE IF \/ list.next + 1 = Len(toks)
                 \/ list.next + 2 = Len(toks) /\ toks[list.next + 2].k = "word"
              THEN SelectRows(toks[list.next + 1].v,
                              tables[toks[list.next + 1].v], distinct,
                              list.items, <<>>)
              ELSE Error

\* SELECT [DISTINCT] result-columns FROM table [alias | WHERE predicates]
ExecSelect(toks, tables) ==
    IF Len(toks) >= 2 /\ toks[2] = Word(kwDISTINCT)
    THEN SelectFrom(toks, tables, TRUE, ItemList(toks, 3, {"id"}, TRUE))
    ELSE SelectFrom(toks, tables, FALSE, ItemList(toks, 2, {"id"}, TRUE))

\* PRAGMA table_info(table): one row per column (cid, name, type, notnull,
\* dflt_value, pk); no row for no such table
ExecPragma(toks, tables) ==
    IF Len(toks) = 5 /\ toks[2] = Word(kw_table_info) /\ toks[3] = Sym("(")
       /\ toks[4].k = "word" /\ toks[5] = Sym(")")
    THEN LET cols == IF toks[4].v \in DOMAIN tables THEN Columns(toks[4].v)
                     ELSE <<>>
         IN  Rows([i \in 1..Len(cols) |->
                     <<PyInt(i - 1), PyStr(cols[i].name), PyStr(cols[i].type),
                       PyInt(0), PyNone, PyInt(0)>>])
    ELSE Error

\* the row an INSERT adds: each literal under the affinity of its column
\* (the first one, if a column is named twice), NULL in the columns not named
InsertRow(t, tables, into, vals) ==
    LET cols == Columns(t)
        at(name) == CHOOSE j \in 1..Len(into) :
                      into[j] = name /\ \A h \in 1..(j - 1) : into[h] # name
    IN  IF Len(into) # Len(vals)
           \/ \E j \in 1..Len(into) : ColumnIndex(cols, into[j]) = 0
        THEN [ok |-> FALSE, rows |-> <<>>, tables |-> tables]
        ELSE [ok |-> TRUE, rows |-> <<>>,
              tables |-> [tables EXCEPT ![t] = Append(@,
                 [i \in 1..Len(cols) |->
                    IF cols[i].name \in Range(into)
                    THEN Affinity(cols[i].type, vals[at(cols[i].name)])
                    ELSE PyNone])]]

\* VALUES (literals) from toks[q] on, for the columns into
InsertValues(toks, tables, q, into) ==
    LET Values(vals) ==
          IF ~vals.ok \/ vals.next # Len(toks) \/ toks[vals.next] # Sym(")")
          THEN [ok |-> FALSE, rows |-> <<>>, tables |-> tables]
          ELSE InsertRow(toks[3].v, tables, into, vals.items)
    IN  IF q + 1 > Len(toks) \/ toks[q] # Word(kwVALUES)
           \/ toks[q + 1] # Sym("(")
        THEN [ok |-> FALSE, rows |-> <<>>, tables |-> tables]
        ELSE Values(ItemList(toks, q + 2, {"str", "num"}, FALSE))

\* INSERT INTO table [(columns)] VALUES (literals)
ExecInsert(toks, tables) ==
    IF Len(toks) < 4 \/ toks[2] # Word(kwINTO) \/ toks[3].k # "word"
       \/ toks[3].v \notin DOMAIN tables
    THEN [ok |-> FALSE, rows |-> <<>>, tables |-> tables]
    ELSE IF toks[4] = Sym("(")
         THEN LET Named(names) ==
                    IF ~names.ok \/ toks[names.next] # Sym(")")
                    THEN [ok |-> FALSE, rows |-> <<>>, tables |-> tables]
                    ELSE InsertValues(toks, tables, names.next + 1,
                            [i \in 1..Len(names.items) |-> names.items[i].v])
              IN  Named(ItemList(toks, 5, {"id"}, FALSE))
         ELSE InsertValues(toks, tables, 4,
                 [i \in 1..Len(Columns(toks[3].v)) |->
                    Columns(toks[3].v)[i].name])

\* the statement whose tokens are toks, on the tables of a file
ExecTokens(toks, tables) ==
    LET read(r) == [ok |-> r.ok, rows |-> r.rows, tables |-> tables]
    IN  IF toks = <<>> THEN read(Rows(<<>>))
        ELSE IF Bad \in Range(toks) THEN read(Error)
        ELSE IF toks[1] = Word(kwSELECT) THEN read(ExecSelect(toks, tables))
        ELSE IF toks[1] = Word(kwPRAGMA) THEN read(ExecPragma(toks, tables))
        ELSE IF toks[1] = Word(kwINSERT) THEN ExecInsert(toks, tables)
        ELSE read(Error)

\* cursor.execute(query) on the tables of the connected file: whether it
\* succeeds, the rows to fetch and the tables afterwards.  An empty
\* statement does nothing; a statement the grammar above does not cover is
\* an sqlite3.OperationalError.
CursorExecute(query, tables) == ExecTokens(Tokens(query, 1), tables)

-----------------------------------------------------------------------------
(* TableCon: execute, get_columns *)

\* what a method has done so far to the world outside the object
Effects(st, sm, cm) == [store |-> st, stmts |-> sm, commits |-> cm]

\* the outcome of a step of a method: the exception raised ("none" if none),
\* the value returned, and the effects so far
Outcome(exc, val, eff) == [exc |-> exc, val |-> val, eff |-> eff]

\* self.commit(), inside a method
Committed(eff) ==
    IF con THEN Effects(eff.store, eff.stmts, eff.commits + 1) ELSE eff

\* the rest of execute once the cursor has answered r
Executed(query, select, eff, r) ==
    LET sent == Effects([eff.store EXCEPT ![db] = r.tables],
                        Append(eff.stmts, query), eff.commits)
    IN  IF ~r.ok THEN Outcome("OperationalError", PyNone, sent)
        ELSE IF select THEN Outcome("none", r.rows, sent)
        ELSE Outcome("none", PyNone, Committed(sent))

execute(query, select, eff) ==
    IF ~con
    THEN Outcome("AttributeError", PyNone, eff)   \* self.cur is None
    ELSE Executed(query, select, eff, CursorExecute(query, eff.store[db]))

\* "PRAGMA table_info(%s)" % self.table
PragmaText == <<"P", "R", "A", "G", "M", "A", " ", "t", "a", "b", "l", "e", "_",
                "i", "n", "f", "o", "(">> \o Format(table) \o <<")">>

\* col_dict: column name -> details, in the order of the rows cols
ColumnDict(cols) ==
    IF cols.exc # "none" THEN cols
    ELSE Outcome("none",
                 DictOf([i \in 1..Len(cols.val) |->
                    <<cols.val[i][2].v,
                      [order |-> cols.val[i][1], type |-> cols.val[i][3],
                       nullable |-> cols.val[i][4] = PyInt(1),
                       default |-> cols.val[i][5]]>>]),
                 cols.eff)

get_columns(eff) == ColumnDict(execute(PragmaText, TRUE, eff))

-----------------------------------------------------------------------------
(* TableCon: the INSERT builders and insert *)

Lit_InsertInto == <<"I", "N", "S", "E", "R", "T", " ", "I", "N", "T", "O", " ">>
Lit_Values == <<"V", "A", "L", "U", "E", "S">>

\* for v in values: v = self._sanitise(v); sql_val += self._quote(v) + ","
RECURSIVE QuotedValues(_)
QuotedValues(values) ==
    IF values = <<>> THEN <<>>
    ELSE _quote(_sanitise(Head(values))) \o <<",">> \o QuotedValues(Tail(values))

\* for k in keys: sql_col += self._bracket(k) + ","
RECURSIVE BracketedNames(_)
BracketedNames(names) ==
    IF names = <<>> THEN <<>>
    ELSE _bracket(Head(names)) \o <<",">> \o BracketedNames(Tail(names))

_query_insert_args(args) ==
    SliceTo(Lit_InsertInto \o Format(table) \o <<" ">> \o Lit_Values
            \o <<"(">> \o QuotedValues(args), -1)
    \o <<")">>

\* the statement for the kwargs once their names are mapped
InsertStatement(mapped) ==
    SliceTo(Lit_InsertInto \o Format(table) \o <<" ", "(">>
            \o BracketedNames(Keys(mapped)), -1)
    \o <<")", " ">>
    \o SliceTo(Lit_Values \o <<" ", "(">>
               \o QuotedValues([i \in 1..Len(mapped) |-> mapped[i][2]]), -1)
    \o <<")">>

_query_insert_kwargs(kwargs) ==
    InsertStatement(map_field_names(PyDict(kwargs)).v)

AmbiguousInput == "ValueError: Field map cannot be defined by both order and name"

\* an insert that takes the named form whenever there is one
InsertNamedFirst(args, kwargs, eff) ==
    IF Len(kwargs) > 0
    THEN execute(_query_insert_kwargs(kwargs), FALSE, eff)
    ELSE execute(_query_insert_args(args), FALSE, eff)

\* insert(*args, **kwargs), from the effects eff
insert(args, kwargs, eff) ==
    IF Len(args) > 0 /\ Len(kwargs) > 0
    THEN Outcome(AmbiguousInput, PyNone, eff)
    ELSE IF Len(kwargs) > 0
         THEN execute(_query_insert_kwargs(kwargs), FALSE, eff)
         ELSE execute(_query_insert_args(args), FALSE, eff)

\* add_row(**kwargs), deprecated: builds the statement of the named form
\* itself and executes it
add_row(kwargs, eff) == execute(_query_insert_kwargs(kwargs), FALSE, eff)

-----------------------------------------------------------------------------
(* TableCon: filter *)

Lit_Select == <<"S", "E", "L", "E", "C", "T">>
Lit_Distinct == <<" ", "D", "I", "S", "T", "I", "N", "C", "T", " ">>
Lit_From == <<"F", "R", "O", "M", " ">>
Lit_Where == <<"W", "H", "E", "R", "E", " ">>

UnsupportedValue == "ValueError: Unsupported value type in key"
InvalidShape ==
    "ValueError: Invalid shape specified. rc must be one of 'rows' or 'columns'."

\* "[%s] = '%s' %s " % (k, v, boolean)
QuotedPredicate(k, v, boolean) ==
    <<"[">> \o k \o <<"]", " ", "=", " ", "'">> \o Format(v)
    \o <<"'", " ">> \o boolean \o <<" ">>

\* "[%s] = %s %s " % (k, vs, boolean)
BarePredicate(k, vs, boolean) ==
    <<"[">> \o k \o <<"]", " ", "=", " ">> \o Format(vs) \o <<" ">> \o boolean
    \o <<" ">>

\* for v in vs: v = self._sanitise(v); query += "[%s] = '%s' %s " % ...
RECURSIVE ListPredicates(_, _, _)
ListPredicates(k, vs, boolean) ==
    IF vs = <<>> THEN <<>>
    ELSE QuotedPredicate(k, _sanitise(Head(vs)), boolean)
         \o ListPredicates(k, Tail(vs), boolean)

\* the text one entry of filters_map appends to the query
EntryPredicates(k, vs, boolean) ==
    CASE vs.t = "str" -> QuotedPredicate(k, _sanitise(vs), boolean)
      [] vs.t = "list" -> ListPredicates(k, vs.v, boolean)
      [] vs.t \in {"int", "float"} -> BarePredicate(k, vs, boolean)

SupportedTypes == {"str", "list", "int", "float"}

\* a loop that passes over the entries whose value is of no supported type
RECURSIVE LenientLoop(_, _)
LenientLoop(items, boolean) ==
    IF items = <<>> THEN [exc |-> "none", val |-> <<>>]
    ELSE LET rest == LenientLoop(Tail(items), boolean)
         IN  IF Head(items)[2].t \notin SupportedTypes THEN rest
             ELSE [exc |-> rest.exc,
                   val |-> EntryPredicates(Head(items)[1], Head(items)[2],
                                           boolean) \o rest.val]

\* the loop over filters_map.items(): the text appended, or the exception
\* raised at the first entry whose value is of no supported type
RECURSIVE WhereLoop(_, _)
WhereLoop(items, boolean) ==
    IF items = <<>> THEN [exc |-> "none", val |-> <<>>]
    ELSE IF Head(items)[2].t \notin SupportedTypes
         THEN [exc |-> UnsupportedValue, val |-> Head(items)[1]]
         ELSE LET rest == WhereLoop(Tail(items), boolean)
              IN  IF rest.exc # "none" THEN rest
                  ELSE [exc |-> "none",
                        val |-> EntryPredicates(Head(items)[1], Head(items)[2],
                                                boolean) \o rest.val]

\* query = query.strip()[:(-1*len(boolean))]
TrimKeyword(query, boolean) == SliceTo(StrStrip(query), 0 - Len(boolean))

\* query = query.replace("[*]", "*")
BareWildcard(query) == StrReplace(query, <<"[", "*", "]">>, <<"*">>)

\* "SELECT" [" DISTINCT "] "[" + "], [".join(return_cols_map) + "] "
\* "FROM %s " % self.table
SelectHead(return_cols_map, distinct) ==
    Lit_Select \o (IF distinct THEN Lit_Distinct ELSE <<>>)
    \o <<"[">> \o StrJoin(<<"]", ",", " ", "[">>, return_cols_map)
    \o <<"]", " ">> \o Lit_From \o Format(table) \o <<" ">>

\* the query with its WHERE clause, once the loop has ended as loop
WhereQuery(head, boolean, loop) ==
    IF loop.exc # "none" THEN loop
    ELSE [exc |-> "none",
          val |-> BareWildcard(TrimKeyword(head \o Lit_Where \o loop.val,
                                           boolean))]

\* the statement filter builds: the exception raised while building it, or
\* the query
FilterQuery(filters_map, return_cols_map, boolean, distinct) ==
    IF filters_map # PyNone /\ filters_map # PyDict(<<>>)
    THEN WhereQuery(SelectHead(return_cols_map, distinct), boolean,
                    WhereLoop(filters_map.v, boolean))
    ELSE [exc |-> "none",
          val |-> BareWildcard(SelectHead(return_cols_map, distinct))]

Wildcard == <<"*">>

\* list(self.get_columns().keys())
ColumnKeys(cols) ==
    IF cols.exc # "none" THEN cols
    ELSE Outcome("none", Keys(cols.val), cols.eff)

\* return columns in which * stays as it is
Unresolved(return_cols_flat, eff) == Outcome("none", return_cols_flat, eff)

\* the loop that replaces * with the list of all columns in the table: one
\* get_columns() call for every * met
RECURSIVE ResolveWildcard(_, _)
ResolveWildcard(return_cols_flat, eff) ==
    LET Rest(got) ==
          IF got.exc # "none" THEN got
          ELSE LET rest == ResolveWildcard(Tail(return_cols_flat), got.eff)
               IN  IF rest.exc # "none" THEN rest
                   ELSE Outcome("none", got.val \o rest.val, rest.eff)
    IN  IF return_cols_flat = <<>> THEN Outcome("none", <<>>, eff)
        ELSE IF Head(return_cols_flat) = Wildcard
             THEN Rest(ColumnKeys(get_columns(eff)))
             ELSE Rest(Outcome("none", <<Head(return_cols_flat)>>, eff))

\* the length of the shortest row
RECURSIVE MinLen(_)
MinLen(rows) ==
    IF Len(rows) = 1 THEN Len(rows[1])
    ELSE Min(Len(Head(rows)), MinLen(Tail(rows)))

\* list(map(list, zip(*results)))
Pivot(results) ==
    IF results = <<>> THEN <<>>
    ELSE [i \in 1..MinLen(results) |->
            PyList([r \in 1..Len(results) |-> results[r][i]])]

\* the dict of return column -> pivoted column, with no case of its own for
\* no rows
PivotOnly(return_cols, results_pivot) ==
    IF Len(return_cols) > Len(results_pivot)
    THEN [exc |-> "IndexError", val |-> PyNone]
    ELSE [exc |-> "none",
          val |-> PyDict(DictOf([i \in 1..Len(return_cols) |->
                            <<return_cols[i], results_pivot[i]>>]))]

\* the dict of return column -> pivoted column
PivotDict(return_cols, results_pivot) ==
    IF results_pivot = <<>>
    THEN [exc |-> "none",
          val |-> PyDict(DictOf([i \in 1..Len(return_cols) |->
                                   <<return_cols[i], PyList(<<>>)>>]))]
    ELSE IF Len(return_cols) > Len(results_pivot)
         THEN [exc |-> "IndexError", val |-> PyNone]
         ELSE [exc |-> "none",
               val |-> PyDict(DictOf([i \in 1..Len(return_cols) |->
                                 <<return_cols[i], results_pivot[i]>>]))]

\* rc == "columns"
ShapeColumns(return_cols, results) == PivotDict(return_cols, Pivot(results))

\* rc == "rows"
ShapeRows(results) ==
    [exc |-> "none",
     val |-> PyList([r \in 1..Len(results) |-> PyList(results[r])])]

\* rc == "rowdict"
ShapeRowDict(return_cols, results) ==
    IF \E r \in 1..Len(results) : Len(return_cols) > Len(results[r])
    THEN [exc |-> "IndexError", val |-> PyNone]
    ELSE [exc |-> "none",
          val |-> PyList([r \in 1..Len(results) |->
                     PyDict(DictOf([i \in 1..Len(return_cols) |->
                                      <<return_cols[i], results[r][i]>>]))])]

Shape(rc, return_cols, results) ==
    CASE rc = "columns" -> ShapeColumns(return_cols, results)
      [] rc = "rows" -> ShapeRows(results)
      [] rc = "rowdict" -> ShapeRowDict(return_cols, results)
      [] OTHER -> [exc |-> InvalidShape, val |-> PyNone]

\* the end of filter: the results shaped under the resolved return columns
Shaped(rc, results, resolved) ==
    LET Result(shaped) == Outcome(shaped.exc, shaped.val, resolved.eff)
    IN  IF resolved.exc # "none" THEN resolved
        ELSE Result(Shape(rc, resolved.val, results.val))

\* filter from the execution of its query on
Queried(names, rc, results) ==
    IF results.exc # "none" THEN results
    ELSE Shaped(rc, results, ResolveWildcard(names, results.eff))

\* filter from the building of its query on
Built(names, rc, query, eff) ==
    IF query.exc # "none" THEN Outcome(query.exc, PyStr(query.val), eff)
    ELSE Queried(names, rc, execute(query.val, TRUE, eff))

\* filter once the names are mapped
Mapped(filters_map, return_cols_map, rc, boolean, distinct, eff) ==
    LET names == [i \in 1..Len(return_cols_map.v) |-> return_cols_map.v[i].v]
    IN  IF return_cols_map.t # "list"
           \/ \E i \in 1..Len(return_cols_map.v) : return_cols_map.v[i].t # "str"
        THEN Outcome("TypeError", PyNone, eff)   \* str.join of no list of str
        ELSE Built(names, rc,
                   FilterQuery(filters_map, names, boolean, distinct), eff)

\* filter(filters, return_cols, rc, boolean, distinct), from the effects eff
filter(filters, return_cols, rc, boolean, distinct, eff) ==
    Mapped(map_field_names(filters),
           map_field_names(IF return_cols.t = "str"
                           THEN PyList(<<return_cols>>) ELSE return_cols),
           rc, boolean, distinct, eff)

-----------------------------------------------------------------------------
(* The methods of a TableCon object as actions *)

\* a method starts with nothing sent to the cursor and nothing committed
Start == Effects(store, <<>>, 0)

\* the method called as c ends as the outcome r says
Returns(c, r) ==
    /\ call' = c
    /\ ret' = [exc |-> r.exc, val |-> r.val]
    /\ store' = r.eff.store
    /\ stmts' = r.eff.stmts
    /\ commits' = r.eff.commits

Done == Outcome("none", PyNone, Start)

\* open(db, table): close, then set_db and set_table with the defaults
Open(d, t) ==
    /\ con' = TRUE
    /\ db' = IF d = PyNone THEN db ELSE d.v
    /\ table' = IF t = PyNone THEN table ELSE t
    /\ UNCHANGED field_map
    /\ Returns([op |-> "open", db |-> d, table |-> t], Done)

Close ==
    /\ con' = FALSE
    /\ UNCHANGED <<db, table, field_map>>
    /\ Returns([op |-> "close"], Done)

Commit ==
    /\ UNCHANGED <<con, db, table, field_map>>
    /\ Returns([op |-> "commit"], Outcome("none", PyNone, Committed(Start)))

SetDb(d) ==
    /\ con' = TRUE
    /\ db' = d
    /\ UNCHANGED <<table, field_map>>
    /\ Returns([op |-> "set_db", db |-> d], Done)

\* a set_table that starts over with no field map
SetTableAnew(t) ==
    /\ table' = t
    /\ field_map' = <<>>
    /\ UNCHANGED <<con, db>>
    /\ Returns([op |-> "set_table", table |-> t], Done)

SetTable(t) ==
    /\ table' = t
    /\ UNCHANGED <<con, db, field_map>>
    /\ Returns([op |-> "set_table", table |-> t], Done)

DefineFieldMap(m) ==
    /\ field_map' = m
    /\ UNCHANGED <<con, db, table>>
    /\ Returns([op |-> "define_field_map", field_map |-> m], Done)

MapFieldNames(fields) ==
    /\ UNCHANGED <<con, db, table, field_map>>
    /\ Returns([op |-> "map_field_names", fields |-> fields],
               Outcome("none", map_field_names(fields), Start))

Sanitise(value) ==
    /\ UNCHANGED <<con, db, table, field_map>>
    /\ Returns([op |-> "_sanitise", value |-> value],
               Outcome("none", _sanitise(value), Start))

\* the col_dict as a Python value
ColumnsValue(cols) ==
    IF cols.exc # "none" THEN cols
    ELSE Outcome("none", PyDict(cols.val), cols.eff)

GetColumns ==
    /\ UNCHANGED <<con, db, table, field_map>>
    /\ Returns([op |-> "get_columns"], ColumnsValue(get_columns(Start)))

Insert(args, kwargs) ==
    /\ UNCHANGED <<con, db, table, field_map>>
    /\ Returns([op |-> "insert", args |-> args, kwargs |-> kwargs],
               insert(args, kwargs, Start))

AddRow(kwargs) ==
    /\ UNCHANGED <<con, db, table, field_map>>
    /\ Returns([op |-> "add_row", kwargs |-> kwargs], add_row(kwargs, Start))

Filter(filters, return_cols, rc, boolean, distinct) ==
    /\ UNCHANGED <<con, db, table, field_map>>
    /\ Returns([op |-> "filter", filters |-> filters,
                return_cols |-> return_cols, rc |-> rc, boolean |-> boolean,
                distinct |-> distinct],
               filter(filters, return_cols, rc, boolean, distinct, Start))

-----------------------------------------------------------------------------
(* The values the methods are called with *)

\* all sequences over S of length at most n
SeqsUpTo(S, n) == UNION {[1..k -> S] : k \in 0..n}

\* all dicts of at most n entries with keys in K and values in V
DictsUpTo(K, V, n) ==
    {d \in SeqsUpTo(K \X V, n) :
       \A i, j \in 1..Len(d) : d[i][1] = d[j][1] => i = j}

insight_db == <<"i", "n", "s", "i", "g", "h", "t", ".", "d", "b">>
backup_db == <<"b", "a", "c", "k", "u", "p", ".", "d", "b">>
DbFiles == {insight_db, backup_db}

TableArgs == {PyStr(renames), PyStr(albums), PyNone}

Original_name == <<"O", "r", "i", "g", "i", "n", "a", "l", " ", "n", "a", "m", "e">>
hash == <<"#">>
s_x == <<"x">>
s_Foo == <<"F", "o", "o">>
s_quoted == <<"a", "'", "b">>
s_bracketed == <<"[", "*", "]">>

\* the field maps a caller defines: none, logical names onto columns, one
\* column name onto another, two column names swapped
FieldMaps ==
    { <<>>,
      << <<Original_name, c_name>>, <<hash, c_number>> >>,
      << <<c_id, c_name>> >>,
      << <<c_id, c_name>>, <<c_name, c_id>> >> }

FewFieldMaps == {m \in FieldMaps : Len(m) # 1}

\* what the tables of a file hold when the object is constructed
InitialTables ==
    [t \in TableNames |->
       IF t = renames THEN << <<PyInt(3), PyStr(s_x)>> >> ELSE <<>>]

RECURSIVE SumLen(_)
SumLen(seqs) == IF seqs = <<>> THEN 0 ELSE Len(Head(seqs)) + SumLen(Tail(seqs))

\* the rows inserted so far, over all files and tables
Inserted(st) ==
    LET SetToSeq(S) == CHOOSE q \in [1..Cardinality(S) -> S] : Range(q) = S
        files == SetToSeq(DOMAIN st)
        names == SetToSeq(TableNames)
    IN  SumLen([i \in 1..Len(files) |->
                  Flatten([j \in 1..Len(names) |-> st[files[i]][names[j]]])])
        - Cardinality(DOMAIN st) * SumLen([j \in 1..Len(names) |->
                                             InitialTables[names[j]]])

MaxInserts == 1

-----------------------------------------------------------------------------
(* The connection object: every method, called in any order *)

Init ==
    /\ con = TRUE
    /\ db \in DbFiles
    /\ table \in TableArgs
    /\ field_map = <<>>
    /\ store = [f \in DbFiles |-> InitialTables]
    /\ call = [op |-> "__init__"]
    /\ ret = [exc |-> "none", val |-> PyNone]
    /\ stmts = <<>>
    /\ commits = 0

InsertArgs == { <<>>, <<PyFloat(1, 5), PyStr(s_quoted)>> }

InsertKwargs ==
    { <<>>, << <<Original_name, PyStr(s_Foo)>>, <<c_id, PyInt(7)>> >> }

FewFields ==
    { PyStr(hash), PyList(<<PyStr(c_id), PyStr(Original_name)>>),
      PyDict(<< <<c_id, PyInt(1)>>, <<c_name, PyInt(2)>> >>), PyInt(5) }

FewFilters ==
    { PyDict(<< <<c_id, PyInt(3)>>,
                <<Original_name, PyList(<<PyStr(s_x), PyStr(s_quoted)>>)>> >>),
      PyDict(<< <<c_id, PyInt(3)>>, <<c_name, PyNone>> >>) }

FewReturnCols == { PyList(<<PyStr(Wildcard)>>), PyStr(Original_name) }

Next ==
    \/ \E d \in {PyNone, PyStr(backup_db)}, t \in {PyNone, PyStr(albums)} :
         Open(d, t)
    \/ Close
    \/ Commit
    \/ \E d \in DbFiles : SetDb(d)
    \/ \E t \in TableArgs : SetTable(t)
    \/ \E m \in FewFieldMaps : DefineFieldMap(m)
    \/ \E fields \in FewFields : MapFieldNames(fields)
    \/ GetColumns
    \/ \E args \in InsertArgs, kwargs \in InsertKwargs :
         Inserted(store) < MaxInserts /\ Insert(args, kwargs)
    \/ \E kwargs \in InsertKwargs :
         Inserted(store) < MaxInserts /\ AddRow(kwargs)
    \/ \E filters \in FewFilters, return_cols \in FewReturnCols,
          rc \in {"rowdict", "table"} :
         Filter(filters, return_cols, rc, kwOR, FALSE)

Spec == Init /\ [][Next]_vars

\* n substituted through the field map M
Substituted(M, n) == IF \E i \in 1..Len(M) : M[i][1] = n
                     THEN M[CHOOSE i \in 1..Len(M) : M[i][1] = n][2]
                     ELSE n

\* the tokens toks with a comma between each adjacent pair
RECURSIVE CommaSeparated(_)
CommaSeparated(toks) ==
    IF Len(toks) <= 1 THEN toks
    ELSE <<Head(toks), Sym(",")>> \o CommaSeparated(Tail(toks))

\* the value v as the claim has it in the statement: a string sanitised and
\* in single quotes, which reads as the string; a number as it is
ValueToken(v) ==
    IF v.t = "str" THEN Token("str", v.v) ELSE Token("num", Format(v))

\* the statement the claim has for the named fields kwargs
NamedInsertTokens(M, t, kwargs) ==
    <<Word(kwINSERT), Word(kwINTO), Word(Format(t)), Sym("(")>>
    \o CommaSeparated([i \in 1..Len(kwargs) |->
                         Token("id", Substituted(M, kwargs[i][1]))])
    \o <<Sym(")"), Word(kwVALUES), Sym("(")>>
    \o CommaSeparated([i \in 1..Len(kwargs) |-> ValueToken(kwargs[i][2])])
    \o <<Sym(")")>>

\* insert was called with named fields only, on an open connection, no two
\* names substituted onto one column
NamedInsert ==
    /\ call.op = "insert"
    /\ con
    /\ call.args = <<>>
    /\ call.kwargs # <<>>
    /\ \A i, j \in 1..Len(call.kwargs) :
         Substituted(field_map, call.kwargs[i][1])
            = Substituted(field_map, call.kwargs[j][1]) => i = j

\* C3, as stated: the statement built for an insert with named fields lists
\* the field-mapped column names, each in square brackets, in the order of
\* the caller's mapping, and the values in the same order, every string
\* sanitised and in single quotes and every number unquoted.
C3_AsStated ==
    NamedInsert =>
       /\ Len(stmts) = 1
       /\ Tokens(stmts[1], 1)
             = NamedInsertTokens(field_map, table, call.kwargs)

BothForms == Len(call.args) > 0 /\ Len(call.kwargs) > 0

OneForm == (Len(call.args) > 0) # (Len(call.kwargs) > 0)

\* nothing was sent to the database and nothing committed
NothingExecuted == stmts = <<>> /\ commits = 0

\* exactly one statement was sent to the database, an INSERT
OneInsertExecuted ==
    Len(stmts) = 1 /\ StartsWith(stmts[1], Lit_InsertInto)

\* C7, as amended: insert called with at least one positional and at least
\* one named argument raises the ambiguous-input error, executes nothing
\* against the database and commits nothing; insert called with only one of
\* the two forms executes exactly one INSERT statement if the connection is
\* open, and raises without executing anything if it is closed.
C7_Insert ==
    [][call'.op = "insert" =>
         /\ BothForms' =>
              /\ ret'.exc = AmbiguousInput
              /\ NothingExecuted'
              /\ store' = store
         /\ OneForm' =>
              IF con' THEN OneInsertExecuted'
              ELSE ret'.exc = "AttributeError" /\ NothingExecuted'
                   /\ store' = store]_vars

\* an insert with both forms was refused
C7_Witness ==
    /\ call.op = "insert"
    /\ BothForms
    /\ ret.exc = AmbiguousInput
    /\ NothingExecuted

\* C7, as stated: insert with both forms raises the ambiguous-input error
\* and executes and commits nothing; insert with only one of the two forms
\* executes exactly one INSERT statement.
C7_AsStated ==
    [][call'.op = "insert" =>
         /\ BothForms' =>
              /\ ret'.exc = AmbiguousInput
              /\ NothingExecuted'
              /\ store' = store
         /\ OneForm' => OneInsertExecuted']_vars

\* C9: after any sequence of calls the field map is the one given by the
\* most recent define_field_map call, or the empty map if none was made:
\* define_field_map sets it, and no other call changes it.
C9_FieldMapFrame ==
    [][/\ call.op = "__init__" => field_map = <<>>
       /\ IF call'.op = "define_field_map"
          THEN field_map' = call'.field_map
          ELSE field_map' = field_map]_vars

\* a table or database switch was made under a field map that is not empty
C9_Witness ==
    /\ call.op \in {"open", "set_db", "set_table"}
    /\ field_map # <<>>

-----------------------------------------------------------------------------
(* The field mapper alone: any field map, any input *)

MaxFields == 2

FieldNames == {c_id, c_name, Original_name, hash}

MapInputs ==
    {PyStr(n) : n \in FieldNames}
    \cup {PyList(l) : l \in SeqsUpTo({PyStr(n) : n \in FieldNames}, MaxFields)}
    \cup {PyDict(d) :
            d \in DictsUpTo(FieldNames, {PyInt(1), PyStr(s_x)}, MaxFields)}

InitMap ==
    /\ Init
    /\ db = insight_db
    /\ table = PyStr(renames)

NextMap ==
    \/ \E m \in FieldMaps : DefineFieldMap(m)
    \/ \E fields \in MapInputs : MapFieldNames(fields)

SpecMap == InitMap /\ [][NextMap]_vars

\* the entries of a mapping whose key, substituted, is n
EntriesOnto(M, d, n) == {i \in 1..Len(d) : Substituted(M, d[i][1]) = n}

\* the substituted keys of the mapping d are pairwise distinct
DistinctOnto(M, d) ==
    \A i, j \in 1..Len(d) :
       Substituted(M, d[i][1]) = Substituted(M, d[j][1]) => i = j

\* the mapping r holds one entry per entry of d, in the same order, each key
\* substituted and each value unchanged
EntryPerEntry(M, d, r) ==
    /\ Len(r) = Len(d)
    /\ \A i \in 1..Len(d) : r[i] = <<Substituted(M, d[i][1]), d[i][2]>>

\* the mapping r holds one entry per substituted key of d, placed where the
\* key first appears and carrying the value of the last entry onto that key
EntryPerKey(M, d, r) ==
    /\ \A a, b \in 1..Len(r) : r[a][1] = r[b][1] => a = b
    /\ \A a \in 1..Len(r) : EntriesOnto(M, d, r[a][1]) # {}
    /\ \A i \in 1..Len(d) :
         \E a \in 1..Len(r) :
            /\ r[a][1] = Substituted(M, d[i][1])
            /\ \A j \in EntriesOnto(M, d, r[a][1]) :
                  (\A l \in EntriesOnto(M, d, r[a][1]) : l <= j)
                  => r[a][2] = d[j][2]
    /\ \A a, b \in 1..Len(r) :
         a < b => \E i \in EntriesOnto(M, d, r[a][1]) :
                     \A j \in EntriesOnto(M, d, r[b][1]) : i < j

\* a single name and a list of names come back substituted
NamesSubstituted(M, f, r) ==
    /\ f.t = "str" => r = PyStr(Substituted(M, f.v))
    /\ f.t = "list" =>
         /\ r.t = "list"
         /\ Len(r.v) = Len(f.v)
         /\ \A i \in 1..Len(f.v) : r.v[i] = PyStr(Substituted(M, f.v[i].v))

\* C1, as amended: map_field_names gives a single name substituted through
\* the field map, a list of names as a list of the same length and order with
\* each name substituted, and a mapping as a mapping with one entry per
\* substituted key, placed where that key first appears and carrying the value
\* of the last input entry onto it; this is one entry per input entry, in
\* order, exactly when the substituted keys are pairwise distinct.
C1_MapFieldNames ==
    call.op = "map_field_names" =>
       /\ ret.exc = "none"
       /\ NamesSubstituted(field_map, call.fields, ret.val)
       /\ call.fields.t = "dict" =>
            /\ ret.val.t = "dict"
            /\ EntryPerKey(field_map, call.fields.v, ret.val.v)
            /\ DistinctOnto(field_map, call.fields.v)
               <=> EntryPerEntry(field_map, call.fields.v, ret.val.v)

\* a mapping of two entries came back with a key substituted
C1_Witness ==
    /\ call.op = "map_field_names"
    /\ call.fields.t = "dict"
    /\ Len(call.fields.v) = 2
    /\ Len(ret.val.v) = 2
    /\ ret.val # call.fields

\* C1, as stated: every mapping comes back with one entry per input entry,
\* in the same order, each key substituted and each value unchanged.
C1_AsStated ==
    call.op = "map_field_names" =>
       /\ ret.exc = "none"
       /\ NamesSubstituted(field_map, call.fields, ret.val)
       /\ call.fields.t = "dict" =>
            /\ ret.val.t = "dict"
            /\ EntryPerEntry(field_map, call.fields.v, ret.val.v)

-----------------------------------------------------------------------------
(* The sanitiser alone: any string, any list, any other value *)

MaxStr == 3
MaxList == 2

Alphabet == {"a", "b", "'", " "}

Strings == {PyStr(x) : x \in SeqsUpTo(Alphabet, MaxStr)}

Elements ==
    {PyStr(x) : x \in SeqsUpTo({"a", "'"}, 1)}
    \cup {PyInt(7), PyList(<<PyStr(s_quoted)>>)}

Values ==
    Strings \cup {PyList(l) : l \in SeqsUpTo(Elements, MaxList)}
    \cup {PyInt(7), PyFloat(1, 5), PyNone, PyDict(<< <<s_quoted, PyInt(1)>> >>)}

NextSanitise == \E value \in Values : Sanitise(value)

SpecSanitise == InitMap /\ [][NextSanitise]_vars

\* s with each single quote replaced by two single quotes
RECURSIVE Doubled(_)
Doubled(s) ==
    IF s = <<>> THEN <<>>
    ELSE (IF Head(s) = "'" THEN <<"'", "'">> ELSE <<Head(s)>>)
         \o Doubled(Tail(s))

QuoteCount(s) == Cardinality({i \in 1..Len(s) : s[i] = "'"})

\* r wrapped in single quotes reads as one literal, whose text is s
OneLiteral(s, r) ==
    Tokens(<<"'">> \o r \o <<"'">>, 1) = <<Token("str", s)>>

\* r is v sanitised
RECURSIVE Sanitised(_, _)
Sanitised(v, r) ==
    CASE v.t = "str" ->
           /\ r.t = "str"
           /\ r.v = Doubled(v.v)
           /\ QuoteCount(r.v) = 2 * QuoteCount(v.v)
           /\ OneLiteral(v.v, r.v)
      [] v.t = "list" ->
           /\ r.t = "list"
           /\ Len(r.v) = Len(v.v)
           /\ \A i \in 1..Len(v.v) : Sanitised(v.v[i], r.v[i])
      [] OTHER -> r = v

\* C4: _sanitise gives a string with each single quote doubled and every
\* other character unchanged and in place (k quotes become 2k), so that the
\* result wrapped in single quotes reads as one literal that is not ended
\* early; it gives a list with each element sanitised, in the same order,
\* and any other value unchanged.
C4_Sanitise ==
    call.op = "_sanitise" =>
       ret.exc = "none" /\ Sanitised(call.value, ret.val)

\* a list holding a string with a quote in it was sanitised
C4_Witness ==
    /\ call.op = "_sanitise"
    /\ call.value.t = "list"
    /\ \E i \in 1..Len(call.value.v) :
          /\ call.value.v[i].t = "str"
          /\ QuoteCount(call.value.v[i].v) > 0
          /\ QuoteCount(ret.val.v[i].v) = 2 * QuoteCount(call.value.v[i].v)

-----------------------------------------------------------------------------
(* The statement filter builds: any filter spec, either join keyword *)

MaxFilters == 2

FilterKeys == {c_id, c_name, Original_name}

FilterValues ==
    { PyStr(s_quoted), PyStr(s_bracketed), PyInt(3), PyFloat(1, 5),
      PyList(<<>>), PyList(<<PyStr(s_x), PyStr(s_quoted)>>), PyNone }

FilterSpecs ==
    {PyDict(d) : d \in DictsUpTo(FilterKeys, FilterValues, MaxFilters)}

LogicalNames == << <<Original_name, c_name>>, <<hash, c_number>> >>

\* filter leaves the object and the database as they are, so a filter right
\* after a filter reaches no state that a first filter does not reach
NextFilter ==
    \/ \E m \in {<<>>, LogicalNames} : DefineFieldMap(m)
    \/ /\ call.op # "filter"
       /\ \E filters \in FilterSpecs, boolean \in {kwAND, kwOR} :
            Filter(filters, PyList(<<PyStr(Wildcard)>>), "rows", boolean, TRUE)

SpecFilter == InitMap /\ [][NextFilter]_vars

Scalars == {"str", "int", "float"}

\* every value of the filter spec d is a string, a list, an integer or a float
AllSupported(d) ==
    \A i \in 1..Len(d) : d[i][2].t \in Scalars \cup {"list"}

\* the number of scalar values of d plus the total length of its lists
RECURSIVE PredicateCount(_)
PredicateCount(d) ==
    IF d = <<>> THEN 0
    ELSE (IF Head(d)[2].t = "list" THEN Len(Head(d)[2].v) ELSE 1)
         + PredicateCount(Tail(d))

\* how many of the tokens toks[from..] are tok
CountFrom(toks, from, tok) ==
    Cardinality({i \in from..Len(toks) : toks[i] = tok})

\* where the token tok first is in toks; 0 if nowhere
TokenIndex(toks, tok) ==
    IF \E i \in 1..Len(toks) : toks[i] = tok
    THEN CHOOSE i \in 1..Len(toks) :
            toks[i] = tok /\ \A j \in 1..(i - 1) : toks[j] # tok
    ELSE 0

\* the statement of tokens toks is SELECT ... FROM t WHERE, at token w, and
\* then n equality predicates with one join keyword between each adjacent
\* pair and none after the last
WhereClauseOf(toks, w, t, n, boolean) ==
    /\ w > 3
    /\ toks[1] = Word(kwSELECT)
    /\ toks[w - 2] = Word(kwFROM)
    /\ toks[w - 1] = Word(t)
    /\ CountFrom(toks, w, Sym("=")) = n
    /\ CountFrom(toks, w, Word(boolean)) = Max(n - 1, 0)
    /\ \A i \in (w + 1)..Len(toks) :
         toks[i] = Word(boolean) <=>
            (i < Len(toks) /\ toks[i - 1].k \in {"str", "num"}
             /\ toks[i + 1].k = "id")

\* filter was called on an open connection with a filter spec that is not
\* empty, holds supported values only and has no two keys substituted onto
\* one name
FilterBuilt ==
    /\ call.op = "filter"
    /\ con
    /\ call.filters.t = "dict"
    /\ call.filters.v # <<>>
    /\ AllSupported(call.filters.v)
    /\ DistinctOnto(field_map, call.filters.v)

\* C2, as stated: for a filter spec that is not empty, the WHERE clause of
\* the executed SELECT holds as many equality predicates as there are scalar
\* values plus list elements, one join keyword between each adjacent pair,
\* none after the last, and SELECT ... FROM <table> WHERE before them intact.
C2_AsStated ==
    FilterBuilt =>
       /\ Len(stmts) >= 1
       /\ WhereClauseOf(Tokens(stmts[1], 1),
                        TokenIndex(Tokens(stmts[1], 1), Word(kwWHERE)),
                        table.v, PredicateCount(call.filters.v), call.boolean)

\* entry i of the filter spec d is in the field-mapped filter spec: no later
\* entry has its key substituted onto the same name
Survives(M, d, i) ==
    \A j \in (i + 1)..Len(d) :
       Substituted(M, d[j][1]) # Substituted(M, d[i][1])

\* filter raised the unsupported-value-type error before executing anything
RaisedUnsupported ==
    /\ ret.exc = UnsupportedValue
    /\ stmts = <<>>
    /\ commits = 0

\* C8, as amended: filter raises the unsupported-value-type error whenever
\* any entry of the field-mapped filter spec (where a later entry replaces an
\* earlier one whose key is substituted onto the same name) has a value that
\* is not a string, a list, an integer or a float, whatever the position of
\* that entry, and it raises before any statement is executed.
C8_UnsupportedValue ==
    (/\ call.op = "filter"
     /\ call.filters.t = "dict"
     /\ \E i \in 1..Len(call.filters.v) :
           /\ call.filters.v[i][2].t \notin Scalars \cup {"list"}
           /\ Survives(field_map, call.filters.v, i))
    => RaisedUnsupported

\* the error was raised for the second of two entries, the first being fine
C8_Witness ==
    /\ call.op = "filter"
    /\ Len(call.filters.v) = 2
    /\ call.filters.v[1][2].t \in Scalars \cup {"list"}
    /\ call.filters.v[2][2].t \notin Scalars \cup {"list"}
    /\ RaisedUnsupported

\* C8, as stated: filter raises the unsupported-value-type error whenever any
\* entry of the filter spec has a value that is not a string, a list, an
\* integer or a float, and it raises before any statement is executed.
C8_AsStated ==
    (/\ call.op = "filter"
     /\ call.filters.t = "dict"
     /\ \E i \in 1..Len(call.filters.v) :
           call.filters.v[i][2].t \notin Scalars \cup {"list"})
    => RaisedUnsupported

\* the predicate the claim has for the key k and the string v
StringPredicate(M, k, v) ==
    <<"[">> \o Substituted(M, k) \o <<"]", " ", "=", " ", "'">>
    \o Doubled(v) \o <<"'">>

\* the predicates the claim has for the filter spec d, in order
RECURSIVE PredicateTexts(_, _)
PredicateTexts(M, d) ==
    IF d = <<>> THEN <<>>
    ELSE LET k == Head(d)[1]
             v == Head(d)[2]
         IN  (CASE v.t = "str" -> <<StringPredicate(M, k, v.v)>>
                [] v.t = "list" ->
                     [i \in 1..Len(v.v) |-> StringPredicate(M, k, v.v[i].v)]
                [] OTHER ->
                     << <<"[">> \o Substituted(M, k) \o <<"]", " ", "=", " ">>
                        \o Format(v) >>)
             \o PredicateTexts(M, Tail(d))

EndsWith(s, t) ==
    Len(s) >= Len(t) /\ SubSeq(s, Len(s) - Len(t) + 1, Len(s)) = t

\* C10, as stated: the executed SELECT ends (but for spaces) with WHERE and the
\* predicates of the filter spec, each with the field-mapped key in brackets
\* and, for a string value v, the literal sanitise(v) in quotes, joined by the
\* keyword: no character of the WHERE clause is changed by the wildcard step.
C10_AsStated ==
    (FilterBuilt /\ PredicateCount(call.filters.v) >= 1) =>
       /\ Len(stmts) >= 1
       /\ EndsWith(StrStrip(stmts[1]),
                   Lit_Where
                   \o StrJoin(<<" ">> \o call.boolean \o <<" ">>,
                              PredicateTexts(field_map, call.filters.v)))

-----------------------------------------------------------------------------
(* The results filter returns: any table content, any shape *)

MaxRows == 2

RenamesRows == { <<PyInt(3), PyStr(s_x)>>, <<PyInt(4), PyStr(s_quoted)>> }

AlbumsRows == << <<PyStr(s_Foo), PyInt(1), PyStr(s_x)>> >>

ShapeFilters ==
    { PyDict(<<>>),
      PyDict(<< <<c_id, PyInt(3)>> >>),
      PyDict(<< <<c_name, PyList(<<PyStr(s_x), PyStr(s_quoted)>>)>> >>) }

ShapeReturnCols ==
    { PyList(<<PyStr(Wildcard)>>),
      PyList(<<PyStr(c_name), PyStr(Wildcard)>>),
      PyList(<<PyStr(Wildcard), PyStr(Original_name)>>),
      PyList(<<PyStr(c_id), PyStr(c_name)>>),
      PyStr(c_id) }

Shapes == {"columns", "rows", "rowdict"}

ColumnRenamed == << <<c_id, c_name>> >>

\* the object is constructed on a file that holds any rows
InitShape ==
    /\ con = TRUE
    /\ db = insight_db
    /\ table = PyStr(renames)
    /\ field_map = <<>>
    /\ \E rows \in SeqsUpTo(RenamesRows, MaxRows) :
         store = [f \in DbFiles |->
                    IF f = insight_db
                    THEN [t \in TableNames |->
                            IF t = renames THEN rows ELSE AlbumsRows]
                    ELSE InitialTables]
    /\ call = [op |-> "__init__"]
    /\ ret = [exc |-> "none", val |-> PyNone]
    /\ stmts = <<>>
    /\ commits = 0

NextShape ==
    \/ \E m \in {<<>>, LogicalNames, ColumnRenamed} : DefineFieldMap(m)
    \/ \E t \in TableNames : SetTable(PyStr(t))
    \/ /\ call.op # "filter"
       /\ \E filters \in ShapeFilters, return_cols \in ShapeReturnCols,
             rc \in Shapes :
            Filter(filters, return_cols, rc, kwAND, TRUE)

SpecShape == InitShape /\ [][NextShape]_vars

\* the names of the columns of the table t, in schema order
SchemaNames(t) == [i \in 1..Len(Columns(t)) |-> Columns(t)[i].name]

\* the names with every wildcard replaced, in place, by the names cols
RECURSIVE Expanded(_, _)
Expanded(names, cols) ==
    IF names = <<>> THEN <<>>
    ELSE (IF Head(names) = Wildcard THEN cols ELSE <<Head(names)>>)
         \o Expanded(Tail(names), cols)

\* the return fields of the call, a single name standing for a list of one
ReturnNames(return_cols) ==
    IF return_cols.t = "str" THEN <<return_cols.v>>
    ELSE [i \in 1..Len(return_cols.v) |-> return_cols.v[i].v]

\* the return field names after field mapping and wildcard resolution
ResolvedNames(M, return_cols, t) ==
    Expanded([i \in 1..Len(ReturnNames(return_cols)) |->
                Substituted(M, ReturnNames(return_cols)[i])],
             SchemaNames(t))

\* the raw result rows of the SELECT that filter executed
RawRows == CursorExecute(stmts[1], store[db]).rows

\* filter executed its SELECT and the database answered it
Answered ==
    /\ call.op = "filter"
    /\ Len(stmts) >= 1
    /\ CursorExecute(stmts[1], store[db]).ok

\* the mapping d has the names as keys, and the name at position i maps to
\* the i-th value of every row, in row order
ColumnsOf(d, names, rows) ==
    /\ \A a, b \in 1..Len(d) : d[a][1] = d[b][1] => a = b
    /\ {d[a][1] : a \in 1..Len(d)} = {names[i] : i \in 1..Len(names)}
    /\ \A i \in 1..Len(names) :
         \A a \in 1..Len(d) :
            d[a][1] = names[i] =>
               d[a][2] = PyList([r \in 1..Len(rows) |-> rows[r][i]])

\* C5: filter with shape "columns" returns a mapping whose keys are all the
\* return field names, after field mapping and wildcard resolution, in which
\* the field at position i maps to the i-th value of every raw result row in
\* row order; with zero rows every return field is still a key, mapped to an
\* empty sequence, and no error is raised.
C5_ShapeColumns ==
    (Answered /\ call.rc = "columns") =>
       /\ ret.exc = "none"
       /\ ret.val.t = "dict"
       /\ ColumnsOf(ret.val.v,
                    ResolvedNames(field_map, call.return_cols, table.v),
                    RawRows)

\* a wildcard among named fields came back as columns of two rows
C5_Witness ==
    /\ Answered
    /\ call.rc = "columns"
    /\ call.return_cols.t = "list"
    /\ \E i \in 1..Len(call.return_cols.v) :
          call.return_cols.v[i] = PyStr(Wildcard)
    /\ Len(call.return_cols.v) = 2
    /\ Len(RawRows) = 2
    /\ Len(ret.val.v) = 2
    /\ \A a \in 1..2 : Len(ret.val.v[a][2].v) = 2

\* the field map M substitutes neither the wildcard nor a column of table t
NoColumnSubstituted(M, t) ==
    \A n \in Range(SchemaNames(t)) \cup {Wildcard} : Substituted(M, n) = n

\* the explicit list of all the columns of the table t, in schema order
AllColumns(t) == PyList([i \in 1..Len(SchemaNames(t)) |-> PyStr(SchemaNames(t)[i])])

\* filter returned what e is: the same result, or the same error
SameResult(e) == ret.exc = e.exc /\ ret.val = e.val

\* filter returned what a call with the return fields cols returns
ReturnsAsWith(cols) ==
    SameResult(filter(call.filters, cols, call.rc, call.boolean,
                      call.distinct, Start))

\* every row came back as a mapping in which name i labels value i
RowsLabelled(dicts, names, rows) ==
    /\ Len(dicts) = Len(rows)
    /\ \A r \in 1..Len(rows) :
         \A i \in 1..Len(names) :
            /\ HasKey(dicts[r].v, names[i])
            /\ Get(dicts[r].v, names[i]) = rows[r][i]

\* the wildcard, alone or among named fields, labels value i with name i
WildcardInPlace ==
    (Answered /\ call.rc = "rowdict") =>
       /\ ret.exc = "none"
       /\ RowsLabelled(ret.val.v,
                       ResolvedNames(field_map, call.return_cols, table.v),
                       RawRows)

\* C6, as amended: provided the field map substitutes neither the wildcard
\* nor any column name of the table, filter with return fields ["*"] returns
\* the same shaped result as filter with the explicit list of all the
\* table's columns in schema order, for every table content, filter spec and
\* shape; and whatever the field map, a wildcard among named fields is
\* expanded in place, so that field name i labels value i of every row.
C6_Wildcard ==
    /\ (/\ call.op = "filter"
        /\ call.return_cols = PyList(<<PyStr(Wildcard)>>)
        /\ NoColumnSubstituted(field_map, table.v))
       => ReturnsAsWith(AllColumns(table.v))
    /\ WildcardInPlace

\* under a field map, the wildcard alone came back as rows labelled by name
C6_Witness ==
    /\ Answered
    /\ call.return_cols = PyList(<<PyStr(Wildcard)>>)
    /\ field_map # <<>>
    /\ NoColumnSubstituted(field_map, table.v)
    /\ call.rc = "rowdict"
    /\ ret.exc = "none"
    /\ Len(ret.val.v) >= 1

\* C6, as stated: filter with return fields ["*"] returns the same shaped
\* result as filter with the explicit list of all the table's columns in
\* schema order, and a wildcard among named fields is expanded in place.
C6_AsStated ==
    /\ (call.op = "filter" /\ call.return_cols = PyList(<<PyStr(Wildcard)>>))
       => ReturnsAsWith(AllColumns(table.v))
    /\ WildcardInPlace

====
